---- MODULE Spec2Model ----
(***************************************************************************)
(* TaskFlow: the TaskManager of src/taskflow.py as a state machine.        *)
(*                                                                         *)
(* State: the in-memory list self.tasks, the backing file tasks.json, the  *)
(* position of the session (at the menu, or just returned from a call) and *)
(* a record of the call that just returned (its arguments, the list it     *)
(* started from, what it printed, whether it called save_tasks).  For the  *)
(* session of main there are also the credential file users.json and the   *)
(* username main holds (None until authenticate_user has returned one).    *)
(*                                                                         *)
(* Python values: a value that may be None is a sequence of length at most *)
(* one (None is <<>>, the value v is <<v>>).  A task dict is a record with *)
(* the six keys of add_task.  **kwargs is a function whose domain is the   *)
(* set of keywords the caller supplied.                                    *)
(***************************************************************************)
EXTENDS Integers, Sequences, FiniteSets, TLC

VARIABLES tasks, tasks_file, pc, call, old, printed, wrote, shown,
          users_file, username

vars == <<tasks, tasks_file, pc, call, old, printed, wrote, shown, users_file, username>>

-----------------------------------------------------------------------------
(* Bounds *)

MaxTasks == 2

-----------------------------------------------------------------------------
(* Python optional values *)

None == <<>>

Some(v) == <<v>>

(* Python truthiness of an optional string: None and "" are falsy. *)
Truthy(o) == o # None /\ o[1] # ""

-----------------------------------------------------------------------------
(* Input domains *)

Descriptions == {"", "Buy milk"}

Categories == {"Work", "Personal"}

Priorities == {"High", "Low"}

(* The (category, priority) pairs that add_task and edit_task are given. *)
CategoryPriority == {<<"Work", "High">>, <<"Personal", "Low">>}

(* The date strings in use, in the order of Python's string comparison. *)
DeadlineStrings == <<"2099-01-01", "2099-01-10", "2099-1-5", "9999-12-31">>

(* The calendar date datetime.strptime(s, "%Y-%m-%d") reads from s, as the  *)
(* number yyyymmdd; %m and %d accept one digit.                             *)
DateOf(s) ==
    CASE s = "2099-01-01" -> 20990101
      [] s = "2099-1-5" -> 20990105
      [] s = "2099-01-10" -> 20990110
      [] s = "9999-12-31" -> 99991231

Deadlines == {None, Some("2099-01-01")}

TaskIds == 0..(MaxTasks + 1)

Fields == {"description", "category", "priority", "deadline"}

-----------------------------------------------------------------------------
(* The messages the operations print *)

MsgAdded == "Task added successfully!"

MsgUpdated == "Task updated successfully!"

MsgNotFound == "Task ID not found."

MsgDeleted == "Task deleted successfully! IDs have been updated."

MsgCompleted == "Task marked as completed!"

MsgNoTasks == "No tasks found."

MsgTable == "<table>"

MsgNothing == ""

-----------------------------------------------------------------------------
(* Storage: json.dump / json.load of the task list *)

JNull == [type |-> "null", num |-> 0, str |-> ""]

JTrue == [type |-> "true", num |-> 0, str |-> ""]

JFalse == [type |-> "false", num |-> 0, str |-> ""]

JNumber(n) == [type |-> "number", num |-> n, str |-> ""]

JString(s) == [type |-> "string", num |-> 0, str |-> s]

JsonOfTask(t) ==
    [id          |-> JNumber(t.id),
     description |-> JString(t.description),
     category    |-> JString(t.category),
     priority    |-> JString(t.priority),
     deadline    |-> IF t.deadline = None THEN JNull ELSE JString(t.deadline[1]),
     completed   |-> IF t.completed THEN JTrue ELSE JFalse]

TaskOfJson(j) ==
    [id          |-> j.id.num,
     description |-> j.description.str,
     category    |-> j.category.str,
     priority    |-> j.priority.str,
     deadline    |-> IF j.deadline.type = "null" THEN None ELSE Some(j.deadline.str),
     completed   |-> j.completed.type = "true"]

json_dump(ts) == [i \in 1..Len(ts) |-> JsonOfTask(ts[i])]

json_load(content) == [i \in 1..Len(content) |-> TaskOfJson(content[i])]

(* The file is the objects written so far and whether the text is whole,    *)
(* that is a JSON document json.load accepts.                               *)
(* open(TASKS_FILE, "w") creates or truncates the file, json.dump fills it. *)
save_tasks(ts) == [exists |-> TRUE, content |-> json_dump(ts), whole |-> TRUE]

(* What a save that stops after open() leaves: open() has emptied the file, *)
(* json.dump has written none, some or all of the objects, and the text is  *)
(* not a JSON document.                                                     *)
torn_saves(ts) ==
    {[exists |-> TRUE, content |-> SubSeq(json_dump(ts), 1, n), whole |-> FALSE] :
        n \in 0..Len(ts)}

(* json.load raises JSONDecodeError on a file that is not a JSON document;  *)
(* load_tasks does not catch it.                                            *)
load_raises(f) == f.exists /\ ~f.whole

load_tasks(f) == IF f.exists THEN json_load(f.content) ELSE <<>>

-----------------------------------------------------------------------------
(* The operations of TaskManager, as functions of the list they start from. *)
(* Each yields the list afterwards, whether save_tasks was called, and the  *)
(* message printed.                                                         *)

Outcome(ts, s, m) == [tasks |-> ts, saved |-> s, printed |-> m]

(* add_task numbering the new task after the append was counted wrongly:   *)
(* "id": len(self.tasks)                                                   *)
add_task_IdIsLen(ts, description, category, priority, deadline) ==
    Outcome(Append(ts, [id          |-> Len(ts),
                        description |-> description,
                        category    |-> category,
                        priority    |-> priority,
                        deadline    |-> deadline,
                        completed   |-> FALSE]), TRUE, MsgAdded)

add_task(ts, description, category, priority, deadline) ==
    LET task == [id          |-> Len(ts) + 1,
                 description |-> description,
                 category    |-> category,
                 priority    |-> priority,
                 deadline    |-> deadline,
                 completed   |-> FALSE]
    IN  Outcome(Append(ts, task), TRUE, MsgAdded)

(* Index of the first task whose id is task_id, 0 when the loop finds none. *)
FirstMatch(ts, task_id) ==
    LET hits == {i \in 1..Len(ts) : ts[i].id = task_id}
    IN  IF hits = {} THEN 0 ELSE CHOOSE i \in hits : \A j \in hits : i <= j

(* The filter written "if v" instead of "if v is not None" *)
NonNone_IfTruthy(kwargs) == {k \in DOMAIN kwargs : Truthy(kwargs[k])}

(* {k: v for k, v in kwargs.items() if v is not None} *)
NonNone(kwargs) == {k \in DOMAIN kwargs : kwargs[k] # None}

(* task.update(...) for the four keywords the callers pass *)
Update(task, kwargs) ==
    LET set == NonNone(kwargs)
    IN  [task EXCEPT
            !.description = IF "description" \in set THEN kwargs["description"][1] ELSE @,
            !.category    = IF "category" \in set THEN kwargs["category"][1] ELSE @,
            !.priority    = IF "priority" \in set THEN kwargs["priority"][1] ELSE @,
            !.deadline    = IF "deadline" \in set THEN kwargs["deadline"] ELSE @]

(* edit_task with save_tasks() after the loop instead of inside it *)
edit_task_SaveAfterLoop(ts, task_id, kwargs) ==
    LET i == FirstMatch(ts, task_id)
    IN  IF i # 0
        THEN Outcome([ts EXCEPT ![i] = Update(ts[i], kwargs)], TRUE, MsgUpdated)
        ELSE Outcome(ts, TRUE, MsgNotFound)

edit_task(ts, task_id, kwargs) ==
    LET i == FirstMatch(ts, task_id)
    IN  IF i # 0
        THEN Outcome([ts EXCEPT ![i] = Update(ts[i], kwargs)], TRUE, MsgUpdated)
        ELSE Outcome(ts, FALSE, MsgNotFound)

(* The comprehension with the comparison turned round: == for != *)
RECURSIVE Without_Equal(_, _)
Without_Equal(ts, task_id) ==
    IF ts = <<>> THEN <<>>
    ELSE IF Head(ts).id = task_id
         THEN <<Head(ts)>> \o Without_Equal(Tail(ts), task_id)
         ELSE Without_Equal(Tail(ts), task_id)

(* [task for task in self.tasks if task["id"] != task_id] *)
RECURSIVE Without(_, _)
Without(ts, task_id) ==
    IF ts = <<>> THEN <<>>
    ELSE IF Head(ts).id # task_id
         THEN <<Head(ts)>> \o Without(Tail(ts), task_id)
         ELSE Without(Tail(ts), task_id)

(* delete_task without its renumbering loop *)
Renumber_Skipped(ts) == ts

(* The renumbering loop with task["id"] = i *)
Renumber_FromZero(ts) == [i \in 1..Len(ts) |-> [ts[i] EXCEPT !.id = i - 1]]

(* for i, task in enumerate(self.tasks): task["id"] = i + 1 *)
Renumber(ts) == [i \in 1..Len(ts) |-> [ts[i] EXCEPT !.id = i]]

delete_task(ts, task_id) ==
    Outcome(Renumber(Without(ts, task_id)), TRUE, MsgDeleted)

(* mark_task_complete without its save_tasks() *)
mark_task_complete_NoSave(ts, task_id) ==
    LET i == FirstMatch(ts, task_id)
    IN  IF i # 0
        THEN Outcome([ts EXCEPT ![i].completed = TRUE], FALSE, MsgCompleted)
        ELSE Outcome(ts, FALSE, MsgNotFound)

(* mark_task_complete flipping the flag: not task["completed"] *)
mark_task_complete_Toggle(ts, task_id) ==
    LET i == FirstMatch(ts, task_id)
    IN  IF i # 0
        THEN Outcome([ts EXCEPT ![i].completed = ~@], TRUE, MsgCompleted)
        ELSE Outcome(ts, FALSE, MsgNotFound)

mark_task_complete(ts, task_id) ==
    LET i == FirstMatch(ts, task_id)
    IN  IF i # 0
        THEN Outcome([ts EXCEPT ![i].completed = TRUE], TRUE, MsgCompleted)
        ELSE Outcome(ts, FALSE, MsgNotFound)

-----------------------------------------------------------------------------
(* view_tasks: filter, then a stable sort of a copy *)

(* The comprehension of view_tasks with != for == *)
RECURSIVE InCategory_NotEqual(_, _)
InCategory_NotEqual(ts, c) ==
    IF ts = <<>> THEN <<>>
    ELSE IF Head(ts).category # c
         THEN <<Head(ts)>> \o InCategory_NotEqual(Tail(ts), c)
         ELSE InCategory_NotEqual(Tail(ts), c)

(* [task for task in tasks if task["category"] == filter_by] *)
RECURSIVE InCategory(_, _)
InCategory(ts, c) ==
    IF ts = <<>> THEN <<>>
    ELSE IF Head(ts).category = c
         THEN <<Head(ts)>> \o InCategory(Tail(ts), c)
         ELSE InCategory(Tail(ts), c)

(* The rank of an unknown priority left at 0: priority_order.get(..., 0) *)
PriorityKey_DefaultZero(t) ==
    CASE t.priority = "High" -> 0
      [] t.priority = "Medium" -> 1
      [] t.priority = "Low" -> 2
      [] OTHER -> 0

(* priority_order.get(x["priority"], 3) *)
PriorityKey(t) ==
    CASE t.priority = "High" -> 0
      [] t.priority = "Medium" -> 1
      [] t.priority = "Low" -> 2
      [] OTHER -> 3

(* Position of a date string in the lexical order of the strings in use. *)
LexRank(s) == CHOOSE i \in 1..Len(DeadlineStrings) : DeadlineStrings[i] = s

(* x["deadline"] or "9999-12-31" *)
DeadlineKey(t) ==
    IF Truthy(t.deadline) THEN LexRank(t.deadline[1]) ELSE LexRank("9999-12-31")

SortKey(t, sort_by) ==
    IF sort_by = Some("priority") THEN PriorityKey(t) ELSE DeadlineKey(t)

(* sorted(tasks, key=...) is stable: an element goes after every element    *)
(* already placed whose key is not greater.                                 *)
RECURSIVE InsertByKey(_, _, _)
InsertByKey(s, t, sort_by) ==
    IF s = <<>> THEN <<t>>
    ELSE IF SortKey(Head(s), sort_by) <= SortKey(t, sort_by)
         THEN <<Head(s)>> \o InsertByKey(Tail(s), t, sort_by)
         ELSE <<t>> \o s

RECURSIVE sorted(_, _)
sorted(ts, sort_by) ==
    IF ts = <<>> THEN <<>>
    ELSE InsertByKey(sorted(SubSeq(ts, 1, Len(ts) - 1), sort_by), ts[Len(ts)], sort_by)

(* view_tasks sorting the list itself (self.tasks.sort) instead of a copy *)
view_tasks_SortInPlace(ts, filter_by, sort_by) ==
    LET filtered == IF Truthy(filter_by) THEN InCategory(ts, filter_by[1]) ELSE ts
        ordered  == IF sort_by \in {Some("priority"), Some("deadline")}
                    THEN sorted(filtered, sort_by)
                    ELSE filtered
    IN  [tasks |-> IF Len(ordered) = Len(ts) THEN ordered ELSE ts, saved |-> FALSE,
         printed |-> IF ordered = <<>> THEN MsgNoTasks ELSE MsgTable,
         shown |-> ordered]

view_tasks(ts, filter_by, sort_by) ==
    LET filtered == IF Truthy(filter_by) THEN InCategory(ts, filter_by[1]) ELSE ts
        ordered  == IF sort_by \in {Some("priority"), Some("deadline")}
                    THEN sorted(filtered, sort_by)
                    ELSE filtered
    IN  [tasks |-> ts, saved |-> FALSE,
         printed |-> IF ordered = <<>> THEN MsgNoTasks ELSE MsgTable,
         shown |-> ordered]

-----------------------------------------------------------------------------
(* The user directory: users.json, authenticate_user, register_user *)

Usernames == {"alice", "Alice"}

Passwords == {"pw", "Pw"}

MsgLoginOk == "Login successful!"

MsgInvalidLogin == "Invalid username or password."

MsgUsernameExists == "Username already exists. Please try again."

MsgRegistered == "Please log in to continue."

MsgExiting == "Exiting TaskFlow. Goodbye!"

MsgInvalidStart == "Invalid choice! Exiting TaskFlow for security reason."

MsgWrongKeyword == "You have entered a wrong keyword or please enter a number within range"

MsgGoodbye == "Goodbye! See You Again Soon"

MsgInvalidChoice == "Invalid choice, please try again."

User(u, p) == [username |-> u, password |-> p]

JsonOfUser(r) == [username |-> JString(r.username), password |-> JString(r.password)]

UserOfJson(j) == [username |-> j.username.str, password |-> j.password.str]

(* json.dump(users, file, indent=4) *)
save_users(users) ==
    [exists  |-> TRUE,
     content |-> [i \in 1..Len(users) |-> JsonOfUser(users[i])],
     whole   |-> TRUE]

load_users(f) ==
    IF f.exists THEN [i \in 1..Len(f.content) |-> UserOfJson(f.content[i])] ELSE <<>>

(* The loop of authenticate_user: the username when a record has this       *)
(* username and this password, None otherwise.                              *)
authenticate_user(users, u, p) ==
    IF \E i \in 1..Len(users) : users[i].username = u /\ users[i].password = p
    THEN Some(u)
    ELSE None

(* register_user with the test of authenticate_user copied into its loop:   *)
(* user["username"] == username and user["password"] == password            *)
register_user_SamePassword(users, u, p) ==
    IF \E i \in 1..Len(users) : users[i].username = u /\ users[i].password = p
    THEN [users |-> users, saved |-> FALSE, printed |-> MsgUsernameExists]
    ELSE [users |-> Append(users, User(u, p)), saved |-> TRUE, printed |-> MsgRegistered]

(* register_user up to its call of authenticate_user: the list afterwards,  *)
(* whether save_users was called, the message printed.                      *)
register_user(users, u, p) ==
    IF \E i \in 1..Len(users) : users[i].username = u
    THEN [users |-> users, saved |-> FALSE, printed |-> MsgUsernameExists]
    ELSE [users |-> Append(users, User(u, p)), saved |-> TRUE, printed |-> MsgRegistered]

(* main without "if username is None: return" *)
SessionGoesOn_Unchecked(name) == TRUE

(* main goes on to TaskManager() unless username is None *)
SessionGoesOn(name) == name # None

-----------------------------------------------------------------------------
(* The state machine *)

NoFile == [exists |-> FALSE, content |-> <<>>, whole |-> FALSE]

Call(op, task_id, kwargs) == [op |-> op, task_id |-> task_id, kwargs |-> kwargs]

NoArgs == [k \in {} |-> None]

(* The **kwargs of the calls of edit_task that are explored:               *)
(*   - the call of main: all four keywords, description possibly "",       *)
(*     category and priority chosen from the menus, deadline possibly None;*)
(*   - description given (possibly ""), the other three None;              *)
(*   - one keyword alone: None, or a value for description and deadline;   *)
(*   - no keyword at all.                                                  *)
MainPatches ==
    {[description |-> Some(d), category |-> Some(cp[1]), priority |-> Some(cp[2]),
      deadline |-> dl] :
        d \in Descriptions, cp \in CategoryPriority, dl \in Deadlines}

DescriptionOnlyPatches ==
    {[description |-> Some(d), category |-> None, priority |-> None, deadline |-> None] :
        d \in Descriptions}

SinglePatches ==
    {[x \in {k} |-> None] : k \in Fields}
        \cup {[x \in {"description"} |-> Some(d)] : d \in Descriptions}
        \cup {[x \in {"deadline"} |-> dl] : dl \in Deadlines}

Patches == MainPatches \cup DescriptionOnlyPatches \cup SinglePatches \cup {NoArgs}

(* TaskManager() in a session that finds no tasks.json *)
Init ==
    /\ tasks_file = NoFile
    /\ tasks = load_tasks(NoFile)
    /\ pc = "returned"
    /\ call = Call("load_tasks", 0, NoArgs)
    /\ old = <<>>
    /\ printed = MsgNothing
    /\ wrote = FALSE
    /\ shown = <<>>
    /\ users_file = NoFile
    /\ username = None

(* The effect of one call of a mutating method *)
Return(c, r) ==
    /\ pc = "menu"
    /\ pc' = "returned"
    /\ call' = c
    /\ old' = tasks
    /\ tasks' = r.tasks
    /\ tasks_file' = IF r.saved THEN save_tasks(r.tasks) ELSE tasks_file
    /\ wrote' = r.saved
    /\ printed' = r.printed
    /\ shown' = <<>>
    /\ UNCHANGED <<users_file, username>>

(* A new session: TaskManager() reads tasks.json.  When json.load raises,   *)
(* the exception leaves __init__ and main: the session is over, self.tasks *)
(* is the [] of line 17.                                                   *)
LoadTasks ==
    /\ \/ pc \in {"menu", "save_failed", "load_failed"}
       \/ pc = "back" /\ SessionGoesOn(username)
    /\ pc' = IF load_raises(tasks_file) THEN "load_failed" ELSE "returned"
    /\ call' = Call("load_tasks", 0, NoArgs)
    /\ old' = tasks
    /\ tasks' = IF load_raises(tasks_file) THEN <<>> ELSE load_tasks(tasks_file)
    /\ printed' = MsgNothing
    /\ wrote' = FALSE
    /\ shown' = <<>>
    /\ UNCHANGED <<tasks_file, users_file, username>>

AddTask ==
    /\ Len(tasks) < MaxTasks
    /\ \E d \in Descriptions, cp \in CategoryPriority, dl \in Deadlines :
          Return(Call("add_task", 0,
                      [description |-> Some(d), category |-> Some(cp[1]),
                       priority |-> Some(cp[2]), deadline |-> dl]),
                 add_task(tasks, d, cp[1], cp[2], dl))

EditTask ==
    \E task_id \in TaskIds, kwargs \in Patches :
        Return(Call("edit_task", task_id, kwargs), edit_task(tasks, task_id, kwargs))

DeleteTask ==
    \E task_id \in TaskIds :
        Return(Call("delete_task", task_id, NoArgs), delete_task(tasks, task_id))

MarkTaskComplete ==
    \E task_id \in TaskIds :
        Return(Call("mark_task_complete", task_id, NoArgs),
               mark_task_complete(tasks, task_id))

ViewTasks ==
    \E filter_by \in {None} \cup {Some(c) : c \in Categories},
       sort_by \in {None, Some("priority"), Some("deadline")} :
        LET r == view_tasks(tasks, filter_by, sort_by)
        IN  /\ pc = "menu"
            /\ pc' = "returned"
            /\ call' = Call("view_tasks", 0, [filter_by |-> filter_by, sort_by |-> sort_by])
            /\ old' = tasks
            /\ tasks' = r.tasks
            /\ printed' = r.printed
            /\ wrote' = r.saved
            /\ shown' = r.shown
            /\ UNCHANGED <<tasks_file, users_file, username>>

(* return_to_home(): back at the menu, the report of the call is gone *)
ReturnToHome ==
    /\ pc = "returned"
    /\ pc' = "menu"
    /\ call' = Call("menu", 0, NoArgs)
    /\ old' = <<>>
    /\ printed' = MsgNothing
    /\ wrote' = FALSE
    /\ shown' = <<>>
    /\ UNCHANGED <<tasks, tasks_file, users_file, username>>

Next ==
    \/ ReturnToHome
    \/ LoadTasks
    \/ AddTask
    \/ ViewTasks
    \/ EditTask
    \/ DeleteTask
    \/ MarkTaskComplete

Spec == Init /\ [][Next]_vars

-----------------------------------------------------------------------------
(* Saves that fail: the process is killed, or a write raises (disk full),   *)
(* inside save_tasks.  The exception is caught nowhere, so the session is   *)
(* over; the list in memory was changed before save_tasks was called.       *)

SaveFails(c, r) ==
    /\ pc = "menu"
    /\ r.saved
    /\ pc' = "save_failed"
    /\ call' = c
    /\ old' = tasks
    /\ tasks' = r.tasks
    /\ tasks_file' \in torn_saves(r.tasks) \cup {tasks_file}
    /\ wrote' = TRUE
    /\ printed' = MsgNothing
    /\ shown' = <<>>
    /\ UNCHANGED <<users_file, username>>

AddTaskSaveFails ==
    /\ Len(tasks) < MaxTasks
    /\ \E d \in Descriptions, cp \in CategoryPriority, dl \in Deadlines :
          SaveFails(Call("add_task", 0,
                         [description |-> Some(d), category |-> Some(cp[1]),
                          priority |-> Some(cp[2]), deadline |-> dl]),
                    add_task(tasks, d, cp[1], cp[2], dl))

DeleteTaskSaveFails ==
    \E task_id \in TaskIds :
        SaveFails(Call("delete_task", task_id, NoArgs), delete_task(tasks, task_id))

MarkTaskCompleteSaveFails ==
    \E task_id \in TaskIds :
        SaveFails(Call("mark_task_complete", task_id, NoArgs),
                  mark_task_complete(tasks, task_id))

NextStorage ==
    \/ ReturnToHome
    \/ LoadTasks
    \/ AddTask
    \/ DeleteTask
    \/ MarkTaskComplete
    \/ AddTaskSaveFails
    \/ DeleteTaskSaveFails
    \/ MarkTaskCompleteSaveFails

SpecStorage == Init /\ [][NextStorage]_vars

-----------------------------------------------------------------------------
(* Views of stored collections: a TaskManager that holds any list of up to  *)
(* MaxViewTasks tasks, of any category, with the three priorities and one   *)
(* that is not in priority_order, without deadline or with one of three     *)
(* dates that input_date accepts.                                           *)

MaxViewTasks == 3

(* The (priority, deadline) pairs of the stored tasks *)
PriorityDeadline ==
    {<<"High", Some("9999-12-31")>>, <<"High", None>>,
     <<"Medium", Some("2099-1-5")>>, <<"Low", Some("2099-01-10")>>,
     <<"Low", None>>, <<"Urgent", Some("2099-01-10")>>}

ViewKinds == Categories \X PriorityDeadline

(* The list add_task builds from a sequence of (category, (priority, deadline)) *)
StoredList(kinds) ==
    [i \in 1..Len(kinds) |->
        [id          |-> i,
         description |-> "Buy milk",
         category    |-> kinds[i][1],
         priority    |-> kinds[i][2][1],
         deadline    |-> kinds[i][2][2],
         completed   |-> FALSE]]

ViewLists ==
    {StoredList(kinds) : kinds \in UNION {[1..n -> ViewKinds] : n \in 0..MaxViewTasks}}

InitView ==
    /\ tasks \in ViewLists
    /\ tasks_file = save_tasks(tasks)
    /\ pc = "menu"
    /\ call = Call("menu", 0, NoArgs)
    /\ old = <<>>
    /\ printed = MsgNothing
    /\ wrote = FALSE
    /\ shown = <<>>
    /\ users_file = NoFile
    /\ username = None

NextView ==
    \/ ViewTasks
    \/ ReturnToHome

SpecView == InitView /\ [][NextView]_vars

-----------------------------------------------------------------------------
(* The session of main: the start choice, register_user, authenticate_user, *)
(* TaskManager(), then the menu loop.  pc is "start" at the first prompt,    *)
(* "login" inside register_user before its call of authenticate_user,       *)
(* "back" when main has the username, "ended" when main has returned.       *)

MaxSessionTasks == 2

Credentials(u, p) == [username |-> Some(u), password |-> Some(p)]

(* authenticate_user(), called by main (choice 1) or by register_user *)
AuthenticateUser ==
    /\ pc \in {"start", "login"}
    /\ \E u \in Usernames, p \in Passwords :
          LET result == authenticate_user(load_users(users_file), u, p)
          IN  /\ pc' = "back"
              /\ username' = result
              /\ call' = Call("authenticate_user", 0, Credentials(u, p))
              /\ printed' = IF result = None THEN MsgInvalidLogin ELSE MsgLoginOk
    /\ old' = <<>>
    /\ wrote' = FALSE
    /\ shown' = <<>>
    /\ UNCHANGED <<tasks, tasks_file, users_file>>

(* register_user() (choice 2), up to its call of authenticate_user *)
RegisterUser ==
    /\ pc = "start"
    /\ \E u \in Usernames, p \in Passwords :
          LET r == register_user(load_users(users_file), u, p)
          IN  /\ pc' = IF r.saved THEN "login" ELSE "back"
              /\ users_file' = IF r.saved THEN save_users(r.users) ELSE users_file
              /\ call' = Call("register_user", 0, Credentials(u, p))
              /\ printed' = r.printed
              /\ wrote' = r.saved
    /\ username' = None
    /\ old' = <<>>
    /\ shown' = <<>>
    /\ UNCHANGED <<tasks, tasks_file>>

(* Any other start choice: main returns *)
InvalidStartChoice ==
    /\ pc = "start"
    /\ pc' = "ended"
    /\ call' = Call("main", 0, NoArgs)
    /\ printed' = MsgInvalidStart
    /\ old' = <<>>
    /\ wrote' = FALSE
    /\ shown' = <<>>
    /\ UNCHANGED <<tasks, tasks_file, users_file, username>>

(* if username is None: main prints its goodbye and returns *)
RejectedExit ==
    /\ pc = "back"
    /\ ~SessionGoesOn(username)
    /\ pc' = "ended"
    /\ call' = Call("main", 0, NoArgs)
    /\ printed' = MsgExiting
    /\ old' = <<>>
    /\ wrote' = FALSE
    /\ shown' = <<>>
    /\ UNCHANGED <<tasks, tasks_file, users_file, username>>

(* What the user types for a task ID: digits (isdigit() holds, int() gives  *)
(* value) or anything else.                                                 *)
IdInputs ==
    {[isdigit |-> TRUE, value |-> n] : n \in 0..(MaxSessionTasks + 1)}
        \cup {[isdigit |-> FALSE, value |-> 0]}

(* Branches 3, 4 and 5 first call view_tasks(); when the ID is not made of  *)
(* digits they print the complaint and execute "return", which leaves main. *)
NotDigits ==
    /\ pc' = "ended"
    /\ call' = Call("view_tasks", 0, [filter_by |-> None, sort_by |-> None])
    /\ old' = tasks
    /\ printed' = MsgWrongKeyword
    /\ wrote' = FALSE
    /\ shown' = view_tasks(tasks, None, None).shown
    /\ UNCHANGED <<tasks, tasks_file, users_file, username>>

(* ... otherwise they call the method with int(task_id) *)
MenuCall(c, r) ==
    /\ pc' = "returned"
    /\ call' = c
    /\ old' = tasks
    /\ tasks' = r.tasks
    /\ tasks_file' = IF r.saved THEN save_tasks(r.tasks) ELSE tasks_file
    /\ wrote' = r.saved
    /\ printed' = r.printed
    /\ shown' = view_tasks(tasks, None, None).shown
    /\ UNCHANGED <<users_file, username>>

(* choice 1 *)
MenuAdd ==
    /\ pc = "menu"
    /\ Len(tasks) < MaxSessionTasks
    /\ \E d \in Descriptions, cp \in CategoryPriority, dl \in Deadlines :
          Return(Call("add_task", 0,
                      [description |-> Some(d), category |-> Some(cp[1]),
                       priority |-> Some(cp[2]), deadline |-> dl]),
                 add_task(tasks, d, cp[1], cp[2], dl))

(* choices 2 and 7 (a sort option) and 6 (a category) *)
MenuView ==
    /\ pc = "menu"
    /\ \E filter_by \in {None} \cup {Some(c) : c \in Categories},
          sort_by \in {None, Some("priority"), Some("deadline")} :
          /\ filter_by = None \/ sort_by = None
          /\ LET r == view_tasks(tasks, filter_by, sort_by)
             IN  /\ pc' = "returned"
                 /\ call' = Call("view_tasks", 0,
                                 [filter_by |-> filter_by, sort_by |-> sort_by])
                 /\ old' = tasks
                 /\ printed' = r.printed
                 /\ wrote' = r.saved
                 /\ shown' = r.shown
                 /\ UNCHANGED <<tasks, tasks_file, users_file, username>>

(* choice 3 *)
MenuEdit ==
    /\ pc = "menu"
    /\ \E task_id \in IdInputs :
          IF ~task_id.isdigit
          THEN NotDigits
          ELSE \E kwargs \in MainPatches :
                  MenuCall(Call("edit_task", task_id.value, kwargs),
                           edit_task(tasks, task_id.value, kwargs))

(* choice 4 *)
MenuDelete ==
    /\ pc = "menu"
    /\ \E task_id \in IdInputs :
          IF ~task_id.isdigit
          THEN NotDigits
          ELSE MenuCall(Call("delete_task", task_id.value, NoArgs),
                        delete_task(tasks, task_id.value))

(* choice 5 *)
MenuComplete ==
    /\ pc = "menu"
    /\ \E task_id \in IdInputs :
          IF ~task_id.isdigit
          THEN NotDigits
          ELSE MenuCall(Call("mark_task_complete", task_id.value, NoArgs),
                        mark_task_complete(tasks, task_id.value))

(* choice 8 *)
MenuExit ==
    /\ pc = "menu"
    /\ pc' = "ended"
    /\ call' = Call("exit", 0, NoArgs)
    /\ printed' = MsgGoodbye
    /\ old' = <<>>
    /\ wrote' = FALSE
    /\ shown' = <<>>
    /\ UNCHANGED <<tasks, tasks_file, users_file, username>>

(* any other choice: the loop goes round *)
MenuInvalid ==
    /\ pc = "menu"
    /\ pc' = "menu"
    /\ call' = Call("menu", 0, NoArgs)
    /\ printed' = MsgInvalidChoice
    /\ old' = <<>>
    /\ wrote' = FALSE
    /\ shown' = <<>>
    /\ UNCHANGED <<tasks, tasks_file, users_file, username>>

(* main is run again: a new process, the files stay *)
RunMain ==
    /\ pc = "ended"
    /\ pc' = "start"
    /\ call' = Call("main", 0, NoArgs)
    /\ tasks' = <<>>
    /\ username' = None
    /\ printed' = MsgNothing
    /\ old' = <<>>
    /\ wrote' = FALSE
    /\ shown' = <<>>
    /\ UNCHANGED <<tasks_file, users_file>>

(* main at its first prompt *)
AtStart(uf) ==
    /\ pc = "start"
    /\ users_file = uf
    /\ username = None
    /\ tasks = <<>>
    /\ tasks_file = NoFile
    /\ call = Call("main", 0, NoArgs)
    /\ old = <<>>
    /\ printed = MsgNothing
    /\ wrote = FALSE
    /\ shown = <<>>

(* One run of main, with one user registered before *)
InitSession == AtStart(save_users(<<User("alice", "pw")>>))

NextSession ==
    \/ AuthenticateUser
    \/ RegisterUser
    \/ InvalidStartChoice
    \/ RejectedExit
    \/ LoadTasks
    \/ ReturnToHome
    \/ MenuAdd
    \/ MenuView
    \/ MenuEdit
    \/ MenuDelete
    \/ MenuComplete
    \/ MenuExit
    \/ MenuInvalid

SpecSession == InitSession /\ [][NextSession]_vars

(* Runs of main one after the other, from no users.json, leaving the menu   *)
(* at once.                                                                 *)
InitUsers == AtStart(NoFile)

NextUsers ==
    \/ AuthenticateUser
    \/ RegisterUser
    \/ InvalidStartChoice
    \/ RejectedExit
    \/ LoadTasks
    \/ ReturnToHome
    \/ MenuExit
    \/ RunMain

SpecUsers == InitUsers /\ [][NextUsers]_vars

-----------------------------------------------------------------------------
(* Properties *)

(* The call op has just returned. *)
Returned(op) == pc = "returned" /\ call.op = op

(* Some task of ts has the identifier task_id. *)
Present(ts, task_id) == \E i \in 1..Len(ts) : ts[i].id = task_id

(* The value of field k of task t, as an optional value. *)
FieldOf(t, k) ==
    CASE k = "description" -> Some(t.description)
      [] k = "category" -> Some(t.category)
      [] k = "priority" -> Some(t.priority)
      [] k = "deadline" -> t.deadline

(* C1: after each delete_task, in a session that started from an empty     *)
(* collection, the identifiers of the surviving tasks are exactly 1..N and  *)
(* the task at position i of the stored order has identifier i.             *)
C1_IdsArePositionsAfterDelete ==
    Returned("delete_task") =>
        /\ \A i \in 1..Len(tasks) : tasks[i].id = i
        /\ {tasks[i].id : i \in 1..Len(tasks)} = 1..Len(tasks)

(* A delete that removed the first of several tasks, so that a survivor had *)
(* to be renumbered.                                                        *)
C1_Witness ==
    /\ Returned("delete_task")
    /\ call.task_id = 1
    /\ Len(old) >= 2
    /\ Len(tasks) = Len(old) - 1

(* C2: after every return of add_task, view_tasks, edit_task, delete_task   *)
(* or mark_task_complete, loading tasks.json yields exactly self.tasks.     *)
C2_FileEqualsMemory ==
    (pc = "returned" /\ call.op \in {"add_task", "view_tasks", "edit_task",
                                      "delete_task", "mark_task_complete"})
        => load_tasks(tasks_file) = tasks

(* A completion just saved, in a list that holds a task without deadline    *)
(* and a task with one.                                                     *)
C2_Witness ==
    /\ Returned("mark_task_complete")
    /\ wrote
    /\ tasks # old
    /\ \E i \in 1..Len(tasks) : tasks[i].deadline = None
    /\ \E i \in 1..Len(tasks) : tasks[i].deadline # None

(* C3: edit_task on an existing identifier with description="" and          *)
(* category, priority, deadline all None leaves every field of the task     *)
(* unchanged (an empty new description keeps the current one).              *)
C3_EmptyDescriptionKeepsTask ==
    (/\ Returned("edit_task")
     /\ Present(old, call.task_id)
     /\ call.kwargs = [description |-> Some(""), category |-> None,
                       priority |-> None, deadline |-> None])
        => tasks = old

(* C4: delete_task with an identifier that matches no task reports          *)
(* not-found, never the message of a deletion that happened.                *)
C4_DeleteAbsentReportsNotFound ==
    (Returned("delete_task") /\ ~Present(old, call.task_id))
        => (printed = MsgNotFound /\ printed # MsgDeleted)

(* C5: delete_task with an identifier that matches no task leaves the       *)
(* collection as it was: same tasks, order, identifiers and field values.   *)
C5_DeleteAbsentKeepsCollection ==
    (Returned("delete_task") /\ ~Present(old, call.task_id)) => tasks = old

(* A delete of an absent identifier on a collection that holds tasks. *)
C5_Witness ==
    /\ Returned("delete_task")
    /\ ~Present(old, call.task_id)
    /\ Len(old) >= 2

(* C6: delete_task(k) with k present in a collection of N tasks yields the  *)
(* other N-1 tasks in the same relative order with their fields unchanged;  *)
(* a task that had identifier j < k keeps it, one that had j > k has j-1.   *)
C6_DeleteRemovesAndShifts ==
    (Returned("delete_task") /\ Present(old, call.task_id)) =>
        /\ Len(tasks) = Len(old) - 1
        /\ \A i \in 1..Len(old) :
              /\ old[i].id < call.task_id => tasks[i] = old[i]
              /\ old[i].id > call.task_id =>
                    tasks[i - 1] = [old[i] EXCEPT !.id = old[i].id - 1]

(* A delete of a present identifier with a task behind it, which differs    *)
(* from the deleted one.                                                    *)
C6_Witness ==
    /\ Returned("delete_task")
    /\ Present(old, call.task_id)
    /\ \E i \in 1..Len(old) :
          /\ old[i].id > call.task_id
          /\ old[i].description # old[FirstMatch(old, call.task_id)].description

(* C7: edit_task and mark_task_complete with an identifier that matches no  *)
(* task print not-found, leave every task unchanged and do not write        *)
(* tasks.json.                                                              *)
C7_NotFoundNoChangeNoWrite ==
    [][(/\ pc' = "returned"
        /\ call'.op \in {"edit_task", "mark_task_complete"}
        /\ ~Present(tasks, call'.task_id))
          => (/\ printed' = MsgNotFound
              /\ tasks' = tasks
              /\ wrote' = FALSE
              /\ tasks_file' = tasks_file)]_vars

(* An edit that would change fields, on a non-empty collection, with an     *)
(* identifier no task has.                                                  *)
C7_Witness ==
    /\ Returned("edit_task")
    /\ ~Present(old, call.task_id)
    /\ old # <<>>
    /\ NonNone(call.kwargs) = Fields

C9_AddAppends ==
    Returned("add_task") =>
        /\ Len(tasks) = Len(old) + 1
        /\ SubSeq(tasks, 1, Len(old)) = old
        /\ tasks[Len(tasks)].id = Len(old) + 1
        /\ tasks[Len(tasks)].completed = FALSE
        /\ \A k \in Fields : FieldOf(tasks[Len(tasks)], k) = call.kwargs[k]

(* An add with an empty description and no deadline to a non-empty          *)
(* collection.                                                              *)
C9_Witness ==
    /\ Returned("add_task")
    /\ old # <<>>
    /\ call.kwargs["description"] = Some("")
    /\ call.kwargs["deadline"] = None

(* C10: mark_task_complete(k) with k present sets completed on the task     *)
(* with identifier k and changes nothing else; on a task already completed  *)
(* it leaves the collection unchanged.                                      *)
C10_CompleteSetsFlagOnly ==
    (Returned("mark_task_complete") /\ Present(old, call.task_id)) =>
        LET i == FirstMatch(old, call.task_id)
        IN  /\ Len(tasks) = Len(old)
            /\ tasks[i].completed = TRUE
            /\ tasks[i].id = call.task_id
            /\ \A k \in Fields : FieldOf(tasks[i], k) = FieldOf(old[i], k)
            /\ \A j \in 1..Len(old) : j # i => tasks[j] = old[j]
            /\ old[i].completed => tasks = old

(* A second completion of a task that was already completed, next to a task *)
(* that is not.                                                             *)
C10_Witness ==
    /\ Returned("mark_task_complete")
    /\ Present(old, call.task_id)
    /\ old[FirstMatch(old, call.task_id)].completed
    /\ \E j \in 1..Len(old) : ~old[j].completed

(* C11: view_tasks with any category filter and any sort key is a pure     *)
(* view: self.tasks (tasks, order, ids, fields) and tasks.json are as      *)
(* before the call.                                                        *)
C11_ViewChangesNothing ==
    [][(pc' = "returned" /\ call'.op = "view_tasks")
          => (tasks' = tasks /\ tasks_file' = tasks_file /\ wrote' = FALSE)]_vars

(* A view whose sort showed all the tasks in another order than the stored *)
(* one.                                                                    *)
C11_Witness ==
    /\ Returned("view_tasks")
    /\ call.kwargs["sort_by"] # None
    /\ Len(shown) = Len(tasks)
    /\ shown # tasks
    /\ tasks_file.exists

(* The positions of the tasks view_tasks keeps: all, or those whose        *)
(* category is the filter.                                                 *)
KeptPositions(ts, filter_by) ==
    IF filter_by # None /\ filter_by # Some("")
    THEN {i \in 1..Len(ts) : ts[i].category = filter_by[1]}
    ELSE 1..Len(ts)

(* sh shows each task of ts at the positions P once and nothing else (the  *)
(* id of a stored task is its position).                                   *)
ShowsExactly(sh, ts, P) ==
    /\ Len(sh) = Cardinality(P)
    /\ {sh[n].id : n \in 1..Len(sh)} = P
    /\ \A n \in 1..Len(sh) : ts[sh[n].id] = sh[n]

(* The rank the specification gives a priority *)
RankOf(p) ==
    IF p = "High" THEN 0 ELSE IF p = "Medium" THEN 1 ELSE IF p = "Low" THEN 2 ELSE 3

(* C12: view_tasks with filter C and no sort key shows exactly the tasks   *)
(* whose category equals C, each once, in their stored relative order.     *)
C12_FilterShowsCategoryInOrder ==
    (/\ Returned("view_tasks")
     /\ call.kwargs["filter_by"] # None
     /\ call.kwargs["sort_by"] = None)
        => /\ ShowsExactly(shown, tasks,
                           {i \in 1..Len(tasks) :
                                tasks[i].category = call.kwargs["filter_by"][1]})
           /\ \A m, n \in 1..Len(shown) : m < n => shown[m].id < shown[n].id

(* A filtered view that shows several tasks and leaves out the first       *)
(* stored one.                                                             *)
C12_Witness ==
    /\ Returned("view_tasks")
    /\ call.kwargs["filter_by"] # None
    /\ call.kwargs["sort_by"] = None
    /\ Len(shown) >= 2
    /\ Len(shown) < Len(tasks)
    /\ tasks[1].category # call.kwargs["filter_by"][1]

(* C13: view_tasks sorted by priority shows a permutation of the           *)
(* (filtered) tasks ordered by rank High 0 < Medium 1 < Low 2 < any other  *)
(* priority 3, tasks of equal rank in their stored relative order.         *)
C13_PrioritySortRankedAndStable ==
    (Returned("view_tasks") /\ call.kwargs["sort_by"] = Some("priority"))
        => /\ ShowsExactly(shown, tasks, KeptPositions(tasks, call.kwargs["filter_by"]))
           /\ \A m, n \in 1..Len(shown) : m < n =>
                 /\ RankOf(shown[m].priority) <= RankOf(shown[n].priority)
                 /\ RankOf(shown[m].priority) = RankOf(shown[n].priority)
                       => shown[m].id < shown[n].id

(* A priority sort that moved a task with an unknown priority behind two   *)
(* tasks of equal rank.                                                    *)
C13_Witness ==
    /\ Returned("view_tasks")
    /\ call.kwargs["sort_by"] = Some("priority")
    /\ Len(shown) >= 3
    /\ tasks[1].priority = "Urgent"
    /\ shown[Len(shown)].priority = "Urgent"
    /\ shown[1].priority = shown[2].priority

(* C14: view_tasks sorted by deadline shows a permutation of the           *)
(* (filtered) tasks in ascending order of their dates, every task without  *)
(* deadline after every task with one, tasks with equal deadlines (or both *)
(* without) in their stored relative order.                                *)
C14_DeadlineSortAscendingAbsentLast ==
    (Returned("view_tasks") /\ call.kwargs["sort_by"] = Some("deadline"))
        => /\ ShowsExactly(shown, tasks, KeptPositions(tasks, call.kwargs["filter_by"]))
           /\ \A m, n \in 1..Len(shown) : m < n =>
                 /\ ~(shown[m].deadline = None /\ shown[n].deadline # None)
                 /\ (shown[m].deadline # None /\ shown[n].deadline # None)
                       => DateOf(shown[m].deadline[1]) <= DateOf(shown[n].deadline[1])
                 /\ shown[m].deadline = shown[n].deadline => shown[m].id < shown[n].id

(* C15: when tasks.json exists but is malformed, load yields an empty      *)
(* collection and the session continues; load never fails the session.     *)
C15_MalformedFileLoadsEmpty ==
    /\ pc # "load_failed"
    /\ (call.op = "load_tasks" /\ tasks_file.exists /\ ~tasks_file.whole)
          => (pc = "returned" /\ tasks = <<>>)

(* C16: when a save fails at any point, tasks.json afterwards holds the    *)
(* whole prior content or the whole new collection, never a partial        *)
(* content on which the next load fails.                                   *)
C16_FailedSaveLeavesWholeFile ==
    [][pc' = "save_failed"
          => /\ (tasks_file' = tasks_file \/ tasks_file' = save_tasks(tasks'))
             /\ ~load_raises(tasks_file')]_vars

(* The operations of the Task Repository *)
RepositoryOps ==
    {"load_tasks", "add_task", "view_tasks", "edit_task", "delete_task",
     "mark_task_complete"}

(* C17: in a run of main no Task Repository operation happens before an    *)
(* authentication has succeeded (the credentials typed are a record of     *)
(* users.json); a failed login, a failed registration or an invalid start  *)
(* choice ends the session with no task operation and tasks.json untouched.*)
C17_NoTaskOperationBeforeLogin ==
    [][/\ call'.op \in RepositoryOps
            => (username # None /\ username' = username)
       /\ (username = None /\ username' # None)
            => (/\ call'.op = "authenticate_user"
                /\ username' = call'.kwargs["username"]
                /\ \E i \in 1..Len(load_users(users_file)) :
                      load_users(users_file)[i] =
                          User(call'.kwargs["username"][1], call'.kwargs["password"][1]))
       /\ username' = None
            => (/\ call'.op \notin RepositoryOps
                /\ tasks' = tasks
                /\ tasks_file' = tasks_file
                /\ pc' \in {"start", "login", "back", "ended"})
       /\ (pc' = "ended" /\ username' = None) => (tasks' = <<>> /\ tasks_file' = NoFile)
      ]_vars

(* A task added by the user who registered in this run and then logged in. *)
C17_Witness ==
    /\ Returned("add_task")
    /\ username = Some("Alice")
    /\ Len(load_users(users_file)) = 2
    /\ tasks_file.exists

(* C18: starting from no credentials, no two records of users.json ever    *)
(* share a username: register_user with a username already present (exact  *)
(* match) fails and leaves the list and the file unchanged; otherwise it    *)
(* appends exactly one record and saves it; no step updates or removes a    *)
(* record.                                                                 *)
C18_RegisterKeepsUsernamesUnique ==
    [][LET before == load_users(users_file)
           after  == load_users(users_file')
       IN  /\ \A i, j \in 1..Len(after) :
                 after[i].username = after[j].username => i = j
           /\ Len(before) <= Len(after) /\ SubSeq(after, 1, Len(before)) = before
           /\ call'.op # "register_user" => users_file' = users_file
           /\ call'.op = "register_user" =>
                 LET u == call'.kwargs["username"][1]
                     p == call'.kwargs["password"][1]
                 IN  IF \E i \in 1..Len(before) : before[i].username = u
                     THEN /\ users_file' = users_file
                          /\ printed' = MsgUsernameExists
                          /\ username' = None
                          /\ pc' = "back"
                     ELSE /\ after = Append(before, User(u, p))
                          /\ users_file'.exists
                          /\ pc' = "login"
      ]_vars

(* A registration refused because the username is taken, with another      *)
(* password, while a username that differs only in case is registered too. *)
C18_Witness ==
    /\ call.op = "register_user"
    /\ printed = MsgUsernameExists
    /\ Len(load_users(users_file)) = 2
    /\ \E i \in 1..Len(load_users(users_file)) :
          /\ load_users(users_file)[i].username = call.kwargs["username"][1]
          /\ load_users(users_file)[i].password # call.kwargs["password"][1]

(* C19: once authenticated, the menu loop ends only when the user chooses  *)
(* Exit (option 8); after any other choice and any input given to it,      *)
(* control returns to the menu and the session continues.                  *)
C19_MenuEndsOnlyOnExit ==
    [][pc = "menu" =>
          \/ (pc' = "ended" /\ call'.op = "exit" /\ printed' = MsgGoodbye)
          \/ pc' \in {"menu", "returned"}]_vars

====
